---- MODULE Spec2Model ----
(***************************************************************************)
(* Model of getAvailableMemory (src/sources/memquery.c): one call that     *)
(* opens the memory statistics source, scans it line by line for five      *)
(* labelled fields, closes it, validates the two mandatory fields and      *)
(* derives the free huge-page memory.                                      *)
(*                                                                         *)
(* A line of the source is a record [label, digits, val]: the text         *)
(* "<label>: <val> kB" when digits is TRUE, and "<label>: <garbage>" (no   *)
(* integer after the label) when digits is FALSE.  Lines are shorter than  *)
(* the 512-byte line buffer, so one fgets call returns one whole line.     *)
(*                                                                         *)
(* A long is 64 bits wide.  It is modelled as its two's complement bytes,  *)
(* least significant first, so that values up to LONG_MAX and the overflow *)
(* of the multiplication at line 69 are within reach.                      *)
(***************************************************************************)
EXTENDS Integers, Sequences, FiniteSets, TLC

\* ---------------------------------------------------------------- bounds
\* longest source made of arbitrary lines (duplicates, malformed, negative)
MaxLines == 3
\* longest source in which every label occurs at most once
MaxFields == 6

\* ------------------------------------------------------------- the source
MandatoryLabels == {"MemAvailable", "SwapFree"}
HugeLabels == {"HugePages_Total", "HugePages_Free", "Hugepagesize"}
\* a label none of the five patterns matches
OtherLabel == "MemFree"

\* --------------------------------------------------------------- long
\* sizeof(long)
LongBytes == 8

\* the long with the value n, for an n of at most 32 bits
Long(n) ==
    [i \in 1..LongBytes |->
        IF i <= 4 THEN (n \div <<1, 256, 65536, 16777216>>[i]) % 256
        ELSE IF n < 0 THEN 255 ELSE 0]

MinusOne == Long(-1)
Zero == Long(0)
Negative(x) == x[LongBytes] >= 128
Positive(x) == ~Negative(x) /\ x # Zero

\* 3037000500, the least long whose square exceeds LONG_MAX
RootOverflow == <<52, 243, 4, 181, 0, 0, 0, 0>>

\* x sign-extended to twice the width
Wide(x) ==
    [i \in 1..(2 * LongBytes) |->
        IF i <= LongBytes THEN x[i] ELSE IF Negative(x) THEN 255 ELSE 0]

RECURSIVE ColumnSum(_, _, _, _)
ColumnSum(a, b, k, i) ==
    IF i = 0 THEN 0 ELSE a[i] * b[k + 1 - i] + ColumnSum(a, b, k, i - 1)

RECURSIVE ProductBytes(_, _, _, _)
ProductBytes(a, b, k, carry) ==
    IF k > 2 * LongBytes THEN << >>
    ELSE LET t == ColumnSum(a, b, k, k) + carry
         IN  <<t % 256>> \o ProductBytes(a, b, k + 1, t \div 256)

\* the product of the longs x and y as an integer, at twice the width
\* (it always fits there)
Product(x, y) == ProductBytes(Wide(x), Wide(y), 1, 0)

\* the low half of a double-width value: what a wrapping multiply stores
Low(w) == [i \in 1..LongBytes |-> w[i]]

\* the product of x and y fits a long
Fits(x, y) == Wide(Low(Product(x, y))) = Product(x, y)

NumL(l, x) == [label |-> l, digits |-> TRUE, val |-> x]
Num(l, v) == NumL(l, Long(v))
Malformed(l) == [label |-> l, digits |-> FALSE, val |-> Zero]

\* lines of arbitrary sources
AnyLines ==
    {Num(l, v) : l \in MandatoryLabels, v \in {-2, -1, 0, 2}}
      \cup {Malformed(l) : l \in MandatoryLabels}
      \cup {Num(l, v) : l \in HugeLabels, v \in {-1, 2}}
      \cup {Num("HugePages_Total", 0), Num("HugePages_Free", 3),
            Malformed("Hugepagesize")}
      \cup {Num(OtherLabel, 5)}

\* lines of sources that carry each label at most once
FieldLines ==
    {Num("MemAvailable", 4), Num("SwapFree", 3)}
      \cup {Num("HugePages_Total", v) : v \in {-1, 0, 10}}
      \cup {Num("HugePages_Free", 4), NumL("HugePages_Free", RootOverflow),
            Malformed("HugePages_Free")}
      \cup {Num("Hugepagesize", v) : v \in {-1, 2048}}
      \cup {NumL("Hugepagesize", RootOverflow)}
      \cup {Num(OtherLabel, 5)}

ArbitrarySources == UNION {[1..n -> AnyLines] : n \in 0..MaxLines}

HasLabel(s, l) == \E i \in 1..Len(s) : s[i].label = l

RECURSIVE FieldSources(_)
FieldSources(n) ==
    IF n = 0 THEN {<< >>}
    ELSE LET P == FieldSources(n - 1)
         IN  P \cup UNION {{Append(s, x) : x \in {y \in FieldLines : ~HasLabel(s, y.label)}}
                              : s \in {p \in P : Len(p) = n - 1}}

Sources == ArbitrarySources \cup FieldSources(MaxFields)

\* what the caller's variables hold before the call (never read by the call)
Stale == Long(9)

\* ------------------------------------------------------------------ state
VARIABLES
    lines,              \* content of the source, a sequence of lines
    openable,           \* whether fopen of the source succeeds
    argAvail,           \* availableMemoryKb != NULL
    argSwap,            \* freeSwapKb != NULL
    argHuge,            \* hugePagesInfoKb != NULL
    availableMemoryKb,  \* the caller's variable behind availableMemoryKb
    freeSwapKb,         \* the caller's variable behind freeSwapKb
    hugePagesInfoKb,    \* the caller's variable behind hugePagesInfoKb
    hugeTlbTotalPages,
    hugeTlbFreePages,
    hugeTlbPageSize,
    meminfoFile,        \* "NULL", "open" or "closed"
    pos,                \* number of lines fgets has returned
    closes,             \* number of fclose calls
    origin,             \* per caller variable, the statement that wrote it last
    pc,
    returned            \* << >> while running, <<r>> once the call returned r

vars == <<lines, openable, argAvail, argSwap, argHuge, availableMemoryKb,
          freeSwapKb, hugePagesInfoKb, hugeTlbTotalPages, hugeTlbFreePages,
          hugeTlbPageSize, meminfoFile, pos, closes, origin, pc, returned>>

input == <<lines, openable, argAvail, argSwap, argHuge>>
locals == <<hugeTlbTotalPages, hugeTlbFreePages, hugeTlbPageSize>>
outputs == <<availableMemoryKb, freeSwapKb, hugePagesInfoKb, origin>>

Init ==
    /\ \/ /\ lines \in Sources
          /\ openable = TRUE
          /\ argAvail = TRUE
          /\ argSwap = TRUE
       \/ /\ lines \in {<< >>, <<Num("MemAvailable", 2), Num("SwapFree", 2)>>}
          /\ openable \in BOOLEAN
          /\ argAvail \in BOOLEAN
          /\ argSwap \in BOOLEAN
    /\ argHuge \in BOOLEAN
    /\ availableMemoryKb = Stale
    /\ freeSwapKb = Stale
    /\ hugePagesInfoKb = Stale
    /\ hugeTlbTotalPages = MinusOne
    /\ hugeTlbFreePages = MinusOne
    /\ hugeTlbPageSize = MinusOne
    /\ meminfoFile = "NULL"
    /\ pos = 0
    /\ closes = 0
    /\ origin = [availableMemoryKb |-> "caller", freeSwapKb |-> "caller",
                 hugePagesInfoKb |-> "caller"]
    /\ pc = "args"
    /\ returned = << >>

\* ------------------------------------------------------------ the routine
\* sscanf(lineBuffer, "<label>: %ld ...", &value): the number of conversions
Sscanf(line, l) == IF line.label = l /\ line.digits THEN 1 ELSE 0

\* CheckArgs testing only the first pointer
CheckArgsFirstOnly ==
    /\ pc = "args"
    /\ IF ~argAvail
         THEN /\ returned' = <<1>>
              /\ pc' = "done"
         ELSE /\ pc' = "open"
              /\ UNCHANGED returned
    /\ UNCHANGED <<input, locals, outputs, meminfoFile, pos, closes>>

\* line 18-20
CheckArgs ==
    /\ pc = "args"
    /\ IF ~argAvail \/ ~argSwap
         THEN /\ returned' = <<1>>
              /\ pc' = "done"
         ELSE /\ pc' = "open"
              /\ UNCHANGED returned
    /\ UNCHANGED <<input, locals, outputs, meminfoFile, pos, closes>>

\* OpenSource without the test of fopen's result
OpenSourceUnchecked ==
    /\ pc = "open"
    /\ meminfoFile' = IF openable THEN "open" ELSE "NULL"
    /\ pc' = "init"
    /\ UNCHANGED <<input, locals, outputs, pos, closes, returned>>

\* line 22-25
OpenSource ==
    /\ pc = "open"
    /\ IF openable
         THEN /\ meminfoFile' = "open"
              /\ pc' = "init"
              /\ UNCHANGED returned
         ELSE /\ returned' = <<1>>
              /\ pc' = "done"
              /\ UNCHANGED meminfoFile
    /\ UNCHANGED <<input, locals, outputs, pos, closes>>

\* line 27-31
InitOutputs ==
    /\ pc = "init"
    /\ availableMemoryKb' = MinusOne
    /\ freeSwapKb' = MinusOne
    /\ hugePagesInfoKb' = IF argHuge THEN Zero ELSE hugePagesInfoKb
    /\ origin' = [availableMemoryKb |-> "default", freeSwapKb |-> "default",
                  hugePagesInfoKb |-> IF argHuge THEN "default"
                                      ELSE origin.hugePagesInfoKb]
    /\ pc' = "scan"
    /\ UNCHANGED <<input, locals, meminfoFile, pos, closes, returned>>

\* FoundAll breaking as soon as one mandatory value is found
FoundAllEither(avail, swap, total, free, size) ==
    /\ avail # MinusOne \/ swap # MinusOne
    /\ \/ ~argHuge
       \/ total # MinusOne /\ free # MinusOne /\ size # MinusOne

\* FoundAll waiting for the huge-page values whether requested or not
FoundAllHugeAlways(avail, swap, total, free, size) ==
    /\ avail # MinusOne /\ swap # MinusOne
    /\ total # MinusOne /\ free # MinusOne /\ size # MinusOne

\* line 48-53: the test that breaks out of the loop
FoundAll(avail, swap, total, free, size) ==
    /\ avail # MinusOne /\ swap # MinusOne
    /\ \/ ~argHuge
       \/ total # MinusOne /\ free # MinusOne /\ size # MinusOne

\* line 33-54: one iteration of the loop, fgets returned a line
ReadLine ==
    /\ pc = "scan"
    /\ pos < Len(lines)
    /\ LET line == lines[pos + 1]
           m == IF Sscanf(line, "MemAvailable") = 1 THEN "MemAvailable"
                ELSE IF Sscanf(line, "SwapFree") = 1 THEN "SwapFree"
                ELSE IF Sscanf(line, "HugePages_Total") = 1 THEN "HugePages_Total"
                ELSE IF Sscanf(line, "HugePages_Free") = 1 THEN "HugePages_Free"
                ELSE IF Sscanf(line, "Hugepagesize") = 1 THEN "Hugepagesize"
                ELSE "none"
           value == line.val
       IN  /\ availableMemoryKb' = IF m = "MemAvailable" THEN value ELSE availableMemoryKb
           /\ freeSwapKb' = IF m = "SwapFree" THEN value ELSE freeSwapKb
           /\ hugeTlbTotalPages' = IF m = "HugePages_Total" THEN value ELSE hugeTlbTotalPages
           /\ hugeTlbFreePages' = IF m = "HugePages_Free" THEN value ELSE hugeTlbFreePages
           /\ hugeTlbPageSize' = IF m = "Hugepagesize" THEN value ELSE hugeTlbPageSize
           /\ origin' = IF m \in MandatoryLabels
                          THEN [origin EXCEPT ![IF m = "MemAvailable"
                                                  THEN "availableMemoryKb"
                                                  ELSE "freeSwapKb"] = "line"]
                          ELSE origin
    /\ pos' = pos + 1
    /\ pc' = IF FoundAll(availableMemoryKb', freeSwapKb', hugeTlbTotalPages',
                         hugeTlbFreePages', hugeTlbPageSize')
               THEN "close" ELSE "scan"
    /\ UNCHANGED <<input, hugePagesInfoKb, meminfoFile, closes, returned>>

\* line 33: fgets returned NULL, the loop ends
EndOfSource ==
    /\ pc = "scan"
    /\ pos = Len(lines)
    /\ pc' = "close"
    /\ UNCHANGED <<input, locals, outputs, meminfoFile, pos, closes, returned>>

\* CloseSource without the fclose
CloseSourceLeak ==
    /\ pc = "close"
    /\ pc' = "validate"
    /\ UNCHANGED <<input, locals, outputs, meminfoFile, pos, closes, returned>>

\* line 57
CloseSource ==
    /\ pc = "close"
    /\ meminfoFile' = "closed"
    /\ closes' = closes + 1
    /\ pc' = "validate"
    /\ UNCHANGED <<input, locals, outputs, pos, returned>>

\* Validate failing only when both mandatory values are missing
ValidateBothMissing ==
    /\ pc = "validate"
    /\ IF availableMemoryKb = MinusOne /\ freeSwapKb = MinusOne
         THEN /\ returned' = <<1>>
              /\ pc' = "done"
         ELSE /\ pc' = "report"
              /\ UNCHANGED returned
    /\ UNCHANGED <<input, locals, outputs, meminfoFile, pos, closes>>

\* line 59-62
Validate ==
    /\ pc = "validate"
    /\ IF availableMemoryKb = MinusOne \/ freeSwapKb = MinusOne
         THEN /\ returned' = <<1>>
              /\ pc' = "done"
         ELSE /\ pc' = "report"
              /\ UNCHANGED returned
    /\ UNCHANGED <<input, locals, outputs, meminfoFile, pos, closes>>

\* HugePagesKnown without the test of the output pointer
HugePagesKnownNoPointerTest(total, free, size) ==
    Positive(total) /\ free # MinusOne /\ size # MinusOne

\* line 65-68: the test that guards the huge-page computation
HugePagesKnown(total, free, size) ==
    argHuge /\ Positive(total) /\ free # MinusOne /\ size # MinusOne

\* line 64-72.  The multiplication at line 69 is a signed one: when the
\* product does not fit a long the behaviour is undefined, and the build
\* either stores the wrapped product (plain gcc, -O0 and -O2) or aborts at
\* the multiplication (-ftrapv, -fsanitize-trap), so that the call never
\* returns.
ReportHugePages ==
    /\ pc = "report"
    /\ IF HugePagesKnown(hugeTlbTotalPages, hugeTlbFreePages, hugeTlbPageSize)
         THEN \/ /\ hugePagesInfoKb' = Low(Product(hugeTlbFreePages, hugeTlbPageSize))
                 /\ origin' = [origin EXCEPT !.hugePagesInfoKb = "computed"]
                 /\ returned' = <<0>>
                 /\ pc' = "done"
              \/ /\ ~Fits(hugeTlbFreePages, hugeTlbPageSize)
                 /\ pc' = "aborted"
                 /\ UNCHANGED <<hugePagesInfoKb, origin, returned>>
         ELSE /\ returned' = <<0>>
              /\ pc' = "done"
              /\ UNCHANGED <<hugePagesInfoKb, origin>>
    /\ UNCHANGED <<input, locals, availableMemoryKb, freeSwapKb, meminfoFile,
                   pos, closes>>

Next ==
    \/ CheckArgs
    \/ OpenSource
    \/ InitOutputs
    \/ ReadLine
    \/ EndOfSource
    \/ CloseSource
    \/ Validate
    \/ ReportHugePages

Spec == Init /\ [][Next]_vars

\* ------------------------------------------------- the source, declaratively
Parsable(s, i, l) == s[i].label = l /\ s[i].digits

\* the value of label l that the first k lines of s leave behind: the value of
\* the last parsable line of that label, -1 when there is none
LastVal(s, l, k) ==
    LET I == {i \in 1..k : Parsable(s, i, l)}
    IN  IF I = {} THEN MinusOne
        ELSE s[CHOOSE i \in I : \A j \in I : j <= i].val

Resolved(s, l, k) == LastVal(s, l, k) # MinusOne

\* after k lines every value the caller needs is resolved
Complete(s, huge, k) ==
    /\ \A l \in MandatoryLabels : Resolved(s, l, k)
    /\ huge => \A l \in HugeLabels : Resolved(s, l, k)

\* the number of lines a scan of s has to read
ScanEnd(s, huge) ==
    LET K == {k \in 1..Len(s) : Complete(s, huge, k)}
    IN  IF K = {} THEN Len(s)
        ELSE CHOOSE k \in K : \A j \in K : k <= j

\* s carries the value x for label l: some line gives it and no parsable line
\* of that label gives another
Carries(s, l, x) ==
    /\ \E i \in 1..Len(s) : Parsable(s, i, l) /\ s[i].val = x
    /\ \A i \in 1..Len(s) : Parsable(s, i, l) => s[i].val = x

\* no line of s resolves label l
Unresolvable(s, l) ==
    \A i \in 1..Len(s) : Parsable(s, i, l) => s[i].val = MinusOne

StripHuge(s) == SelectSeq(s, LAMBDA x : x.label \notin HugeLabels)

Callable == argAvail /\ argSwap
Opens == Callable /\ openable
Finished == returned # << >>
Success == returned = <<0>>
Failure == returned = <<1>>
Untouched ==
    /\ availableMemoryKb = Stale /\ origin.availableMemoryKb = "caller"
    /\ freeSwapKb = Stale /\ origin.freeSwapKb = "caller"
    /\ hugePagesInfoKb = Stale /\ origin.hugePagesInfoKb = "caller"

TypeOK ==
    /\ pc \in {"args", "open", "init", "scan", "close", "validate", "report",
              "done", "aborted"}
    /\ meminfoFile \in {"NULL", "open", "closed"}
    /\ pos \in 0..Len(lines)
    /\ returned \in {<< >>, <<0>>, <<1>>}
    /\ Finished <=> pc = "done"

\* ----------------------------------------------------------------- claims

\* C1: an openable source that carries MemAvailable X and SwapFree Y with
\* X, Y >= 0 (a line gives the value and no parsable line of the same label
\* gives another), in any line order and with any other lines in between,
\* makes the call succeed with exactly X and Y in the mandatory outputs,
\* whether or not huge pages are requested.
C1_MandatoryValuesReturned ==
    \A i, j \in 1..Len(lines) :
        ( /\ Finished /\ Opens
          /\ ~Negative(lines[i].val)
          /\ Carries(lines, "MemAvailable", lines[i].val)
          /\ ~Negative(lines[j].val)
          /\ Carries(lines, "SwapFree", lines[j].val) )
        => /\ Success
           /\ availableMemoryKb = lines[i].val
           /\ freeSwapKb = lines[j].val

\* SwapFree precedes MemAvailable, an unrecognised line and a huge-page line
\* lie between them, huge pages are requested
C1_Witness ==
    /\ Success /\ argHuge /\ Len(lines) = 4
    /\ lines[1] = Num("SwapFree", 3)
    /\ lines[2].label = OtherLabel
    /\ lines[3].label = "Hugepagesize"
    /\ lines[4] = Num("MemAvailable", 4)
    /\ availableMemoryKb = Long(4) /\ freeSwapKb = Long(3)

\* C2: a source with no resolvable MemAvailable line or no resolvable SwapFree
\* line makes the call fail, after a scan to end-of-source, whatever other
\* fields are present and whether or not huge pages are requested.
C2_MissingMandatoryFails ==
    ( /\ Finished
      /\ Unresolvable(lines, "MemAvailable") \/ Unresolvable(lines, "SwapFree") )
    => /\ Failure
       /\ Opens => pos = Len(lines) /\ meminfoFile = "closed"

\* MemAvailable and all three huge-page fields are present, SwapFree is not
C2_Witness ==
    /\ Failure /\ Opens /\ argHuge
    /\ HasLabel(lines, "MemAvailable") /\ ~HasLabel(lines, "SwapFree")
    /\ \A l \in HugeLabels : Resolved(lines, l, Len(lines))
    /\ availableMemoryKb = Long(4)

\* C3: a completed call either succeeds with both mandatory values
\* non-negative or reports failure.
C3_SuccessIsNonNegative ==
    Finished => \/ Failure
                \/ /\ Success
                   /\ ~Negative(availableMemoryKb)
                   /\ ~Negative(freeSwapKb)

\* C4: after a failing return neither mandatory output holds a value read
\* from the source during the call.
C4_NoPartialResult ==
    Failure => /\ origin.availableMemoryKb # "line"
               /\ origin.freeSwapKb # "line"

\* C5: on success with huge pages requested, hugePagesInfoKb is
\* free * size when the scan resolved all three huge-page fields and the
\* total is positive, and 0 otherwise.
C5_HugePagesDerived ==
    (Success /\ argHuge) =>
        LET total == LastVal(lines, "HugePages_Total", pos)
            free == LastVal(lines, "HugePages_Free", pos)
            size == LastVal(lines, "Hugepagesize", pos)
        IN  IF total # MinusOne /\ free # MinusOne /\ size # MinusOne
               /\ Positive(total)
              THEN Wide(hugePagesInfoKb) = Product(free, size)
              ELSE hugePagesInfoKb = Zero

\* C6: when the source cannot be opened the call fails at once: it goes from
\* the open straight to the failing return and no line is read.
C6_UnavailableSourceFails ==
    (Callable /\ ~openable) =>
        /\ pc \in {"args", "open", "done"}
        /\ pos = 0
        /\ meminfoFile = "NULL"
        /\ Finished => Failure

\* a non-empty source that cannot be opened, after the return
C6_Witness ==
    /\ Callable /\ ~openable /\ Failure /\ Len(lines) > 0 /\ pos = 0

\* C7: a call that opened the source closes it exactly once, before the
\* validation, on every exit path; no handle is open at the return and a call
\* that did not open the source closes nothing.
C7_ClosedExactlyOnce ==
    /\ closes <= 1
    /\ pc \in {"validate", "report"} => meminfoFile = "closed" /\ closes = 1
    /\ Finished => /\ meminfoFile # "open"
                   /\ closes = IF Opens THEN 1 ELSE 0
                   /\ Opens => meminfoFile = "closed"

\* a successful call that left the scan early, with a line unread
C7_Witness ==
    /\ Success /\ pos < Len(lines) /\ closes = 1 /\ meminfoFile = "closed"

\* C8: without a huge-page output the outcome and the mandatory values are
\* those of the source with its huge-page lines removed, and the caller's
\* huge-page variable is never written.
C8_HugeLinesIrrelevant ==
    ~argHuge =>
        /\ hugePagesInfoKb = Stale /\ origin.hugePagesInfoKb = "caller"
        /\ (Finished /\ Opens) =>
             LET s == StripHuge(lines)
                 k == ScanEnd(s, FALSE)
                 a == LastVal(s, "MemAvailable", k)
                 w == LastVal(s, "SwapFree", k)
             IN  /\ availableMemoryKb = a
                 /\ freeSwapKb = w
                 /\ returned = <<IF a # MinusOne /\ w # MinusOne THEN 0 ELSE 1>>

\* huge pages not requested, a source whose huge-page lines are all read
\* before the mandatory values are found
C8_Witness ==
    /\ ~argHuge /\ Success /\ pos = 5
    /\ \A l \in HugeLabels : Resolved(lines, l, 3)
    /\ Positive(LastVal(lines, "HugePages_Total", 3))
    /\ hugePagesInfoKb = Stale

\* C9: the scan reads the lines in order and stops right after the first line
\* at which both mandatory values, and the three huge-page values if
\* requested, are resolved; without such a line it reads to end-of-source.
C9_ScanStopsAtFirstCompleteLine ==
    Opens =>
        /\ pc \in {"args", "open", "init"} => pos = 0
        /\ pc = "scan" => \A k \in 1..pos : ~Complete(lines, argHuge, k)
        /\ pc \in {"close", "validate", "report", "done"} =>
             pos = ScanEnd(lines, argHuge)

\* huge pages not requested: the third line would change MemAvailable but is
\* never read
C9_Witness ==
    /\ ~argHuge /\ Success /\ Len(lines) = 3 /\ pos = 2
    /\ lines[1] = Num("MemAvailable", 2)
    /\ lines[3] = Num("MemAvailable", 0)
    /\ availableMemoryKb = Long(2)

\* C10: a call that fails before the scan (a null mandatory pointer, or a
\* source that cannot be opened) writes no caller variable; with a null
\* pointer the source is not opened either.  The first writes, -1, -1 and 0
\* for a requested huge-page output, follow the successful open.
C10_NoWriteBeforeOpen ==
    /\ ~Callable => Untouched /\ meminfoFile = "NULL" /\ pc \in {"args", "done"}
    /\ ~openable => Untouched
    /\ meminfoFile = "NULL" => Untouched
    /\ (pc = "scan" /\ pos = 0) =>
          /\ availableMemoryKb = MinusOne /\ freeSwapKb = MinusOne
          /\ hugePagesInfoKb = IF argHuge THEN Zero ELSE Stale

\* a null freeSwapKb with an openable source, after the return
C10_Witness ==
    /\ argAvail /\ ~argSwap /\ openable /\ Failure /\ Untouched

====
